---- MODULE Spec2Model ----
(***************************************************************************)
(* A model of synthaser/figure.py: the Figure class (colour registry,      *)
(* scale factor, sorting and grouping, gradients, block layout, JSON       *)
(* round trip, sequence assignment) and the module-level colour check.     *)
(*                                                                         *)
(* Python strings are sequences of one-character strings, so that the      *)
(* regular expression of _validate_colour, len() and "-".join() are        *)
(* computed character by character.  Python floats are IEEE-754 binary64   *)
(* values, held as a sign, a 53-bit significand (a sequence of bits, most  *)
(* significant first) and an exponent; division and multiplication round   *)
(* to nearest, ties to even, as the hardware does.                         *)
(***************************************************************************)
EXTENDS Integers, Sequences, FiniteSets, TLC

VARIABLES
    synthases,  \* Figure.synthases: the ordered list of Synthase objects
    colours,    \* Figure.colours: domain type -> hex colour string
    out         \* the last call: its name, its arguments, how it ended, its value

vars == <<synthases, colours, out>>

(***************************************************************************)
(* Strings                                                                 *)
(***************************************************************************)
HexDigits ==
    {"0", "1", "2", "3", "4", "5", "6", "7", "8", "9",
     "A", "B", "C", "D", "E", "F", "a", "b", "c", "d", "e", "f"}

\* "M" * n
Repeat(c, n) == [i \in 1..n |-> c]

(***************************************************************************)
(* The colour registry                                                     *)
(***************************************************************************)
default_colours ==
    [ACP |-> <<"#", "0", "8", "4", "B", "C", "6">>,
     KS  |-> <<"#", "0", "8", "B", "2", "0", "8">>,
     SAT |-> <<"#", "8", "0", "8", "0", "8", "0">>,
     KR  |-> <<"#", "0", "8", "9", "E", "4", "B">>,
     MT  |-> <<"#", "0", "0", "f", "f", "0", "0">>,
     ER  |-> <<"#", "0", "8", "9", "E", "8", "5">>,
     AT  |-> <<"#", "D", "C", "0", "4", "0", "4">>,
     DH  |-> <<"#", "B", "4", "5", "F", "0", "4">>,
     PT  |-> <<"#", "9", "9", "9", "9", "0", "0">>,
     TE  |-> <<"#", "7", "5", "0", "0", "7", "2">>,
     TR  |-> <<"#", "9", "9", "3", "3", "f", "f">>,
     T   |-> <<"#", "0", "8", "4", "B", "C", "6">>,
     R   |-> <<"#", "9", "9", "3", "3", "f", "f">>,
     C   |-> <<"#", "3", "9", "3", "9", "8", "9">>,
     A   |-> <<"#", "5", "6", "1", "5", "7", "F">>]

\* The regular expression ^#([A-Fa-f0-9]{6}|[A-Fa-f0-9]{3})$ of Python's re,
\* without re.MULTILINE: ^ matches at the start of the string only; $ matches
\* at the end of the string and also just before a newline that ends it.
HexRun(colour, n) ==
    /\ Len(colour) >= n + 1
    /\ \A i \in 2..(n + 1) : colour[i] \in HexDigits

DollarAt(colour, pos) ==
    \/ pos = Len(colour) + 1
    \/ pos = Len(colour) /\ colour[pos] = "\n"

hex_regex_search(colour) ==
    /\ Len(colour) >= 1
    /\ colour[1] = "#"
    /\ \/ HexRun(colour, 6) /\ DollarAt(colour, 8)
       \/ HexRun(colour, 3) /\ DollarAt(colour, 5)

validate_colour(colour) == IF hex_regex_search(colour) THEN TRUE ELSE FALSE

\* Figure.set_colours over the items of the dict, in order: the state of the
\* registry and how the loop ended after the items from position i on.
RECURSIVE set_colours_loop(_, _, _)
set_colours_loop(reg, items, i) ==
    IF i > Len(items) THEN [colours |-> reg, status |-> "ok"]
    ELSE LET key == items[i][1]
             value == items[i][2]
         IN  IF key \notin DOMAIN reg
                 THEN [colours |-> reg, status |-> "KeyError"]
             ELSE IF ~validate_colour(value)
                 THEN [colours |-> reg, status |-> "ValueError"]
             ELSE set_colours_loop([reg EXCEPT ![key] = value], items, i + 1)

set_colours_result(reg, items) == set_colours_loop(reg, items, 1)

(***************************************************************************)
(* Python floats: IEEE-754 binary64, round to nearest, ties to even.       *)
(* A float is [sign, bits, exp]: bits is the 53-bit significand, most      *)
(* significant bit first and equal to 1, and the value is                  *)
(* (-1)^sign * bits * 2^exp.  Zero has no bits.  Every value of the model  *)
(* is far from the overflow and subnormal ranges.                          *)
(***************************************************************************)
MantBits == 53

Abs(n) == IF n < 0 THEN -n ELSE n

RECURSIVE Pow2(_)
Pow2(n) == IF n = 0 THEN 1 ELSE 2 * Pow2(n - 1)

\* 2^k modulo b, by repeated squaring (b < 2^15).
RECURSIVE Pow2Mod(_, _)
Pow2Mod(k, b) ==
    IF k = 0 THEN 1 % b
    ELSE LET h == Pow2Mod(k \div 2, b)
         IN  IF k % 2 = 0 THEN (h * h) % b ELSE (2 * ((h * h) % b)) % b

\* The number of binary digits of a natural number (0 has none).
RECURSIVE BitLength(_)
BitLength(n) == IF n = 0 THEN 0 ELSE 1 + BitLength(n \div 2)

\* The binary digits of a natural number, most significant first.
IntBits(n) ==
    LET len == BitLength(n)
    IN  [i \in 1..len |-> (n \div Pow2(len - i)) % 2]

\* The natural number of at most 30 binary digits.
RECURSIVE BitsInt(_)
BitsInt(bits) ==
    IF bits = <<>> THEN 0
    ELSE 2 * BitsInt(SubSeq(bits, 1, Len(bits) - 1)) + bits[Len(bits)]

\* The w binary digits of a natural number below 2^w.
FixedBits(n, w) == [i \in 1..w |-> (n \div Pow2(w - i)) % 2]

Zeros(n) == [i \in 1..n |-> 0]

FloatZero == [sign |-> 0, bits |-> <<>>, exp |-> 0]

\* bits + 1; one bit longer when every bit was 1.
IncBits(bits) ==
    IF \A i \in 1..Len(bits) : bits[i] = 1 THEN <<1>> \o Zeros(Len(bits))
    ELSE LET k == CHOOSE i \in 1..Len(bits) :
                      bits[i] = 0 /\ \A j \in (i + 1)..Len(bits) : bits[j] = 1
         IN  [i \in 1..Len(bits) |->
                 IF i < k THEN bits[i] ELSE IF i = k THEN 1 ELSE 0]

\* The float nearest to (-1)^sign * (bits + tail) * 2^exp, where bits starts
\* with a 1 and has at least MantBits bits, and sticky says that the tail
\* (a fraction below the last bit) is not zero.
RoundToFloat(sign, bits, sticky, exp) ==
    LET n == Len(bits)
        top == SubSeq(bits, 1, MantBits)
        guard == IF n > MantBits THEN bits[MantBits + 1] ELSE 0
        rest == sticky \/ \E i \in (MantBits + 2)..n : bits[i] = 1
        up == guard = 1 /\ (rest \/ top[MantBits] = 1)
        inc == IncBits(top)
        e == exp + (n - MantBits)
    IN  IF ~up THEN [sign |-> sign, bits |-> top, exp |-> e]
        ELSE IF Len(inc) = MantBits THEN [sign |-> sign, bits |-> inc, exp |-> e]
        ELSE [sign |-> sign, bits |-> SubSeq(inc, 1, MantBits), exp |-> e + 1]

\* float(n) for an int n: exact below 2^53.
float_from_int(n) ==
    IF n = 0 THEN FloatZero
    ELSE LET b == IntBits(Abs(n))
         IN  [sign |-> IF n < 0 THEN 1 ELSE 0,
              bits |-> b \o Zeros(MantBits - Len(b)),
              exp |-> Len(b) - MantBits]

\* The first n binary digits of r / b (r < b < 2^15) after the point, and
\* whether a remainder is left: digit k is the integer part of twice the
\* remainder of r * 2^(k-1) by b.
FracBits(r, b, n) ==
    [bits |-> [k \in 1..n |-> (2 * ((r * Pow2Mod(k - 1, b)) % b)) \div b],
     sticky |-> (r * Pow2Mod(n, b)) % b # 0]

\* a / b for ints a and b > 0 (Python's true division): the correctly rounded
\* quotient.  Both are first scaled by a power of two to the same bit length,
\* so that the quotient lies between 1/2 and 2.
int_truediv(a, b) ==
    IF a = 0 THEN FloatZero
    ELSE LET la == BitLength(Abs(a))
             lb == BitLength(b)
             num == Abs(a) * Pow2(IF lb > la THEN lb - la ELSE 0)
             den == b * Pow2(IF la > lb THEN la - lb ELSE 0)
             lead == IF num >= den THEN 1 ELSE 0
             frac == FracBits(num - lead * den, den, MantBits + 2)
             digits == IF lead = 1 THEN <<1>> \o frac.bits ELSE frac.bits
         IN  RoundToFloat(IF a < 0 THEN 1 ELSE 0, digits, frac.sticky,
                          (la - lb) - (MantBits + 2))

\* Big naturals are computed on in groups of 13 binary digits (limbs), most
\* significant first.
LimbWidth == BitLength(8191)

ToLimbs(bits) ==
    LET n == (Len(bits) + LimbWidth - 1) \div LimbWidth
        padded == Zeros(n * LimbWidth - Len(bits)) \o bits
    IN  [k \in 1..n |->
            BitsInt(SubSeq(padded, (k - 1) * LimbWidth + 1, k * LimbWidth))]

RECURSIVE LimbsToBits(_, _)
LimbsToBits(limbs, k) ==
    IF k > Len(limbs) THEN <<>>
    ELSE FixedBits(limbs[k], LimbWidth) \o LimbsToBits(limbs, k + 1)

\* The bits without their leading zeros.
StripZeros(bits) ==
    IF \A i \in 1..Len(bits) : bits[i] = 0 THEN <<>>
    ELSE SubSeq(bits,
                CHOOSE i \in 1..Len(bits) :
                    bits[i] = 1 /\ \A j \in 1..(i - 1) : bits[j] = 0,
                Len(bits))

\* limbs * n + carry for a natural n < 2^17, from the last limb.
RECURSIVE MulLimbs(_, _, _, _, _)
MulLimbs(limbs, n, k, carry, acc) ==
    IF k = 0 THEN IntBits(carry) \o LimbsToBits(acc, 1)
    ELSE MulLimbs(limbs, n, k - 1, (limbs[k] * n + carry) \div Pow2(LimbWidth),
                  <<(limbs[k] * n + carry) % Pow2(LimbWidth)>> \o acc)

\* bits * n for a natural n > 0.
MulBits(bits, n) ==
    LET limbs == ToLimbs(bits)
    IN  StripZeros(MulLimbs(limbs, n, Len(limbs), 0, <<>>))

\* x * n for a float x and an int n > 0 (n converts to a float exactly): the
\* exact product, rounded.
float_mul_int(x, n) ==
    IF x.bits = <<>> THEN FloatZero
    ELSE RoundToFloat(x.sign, MulBits(x.bits, n), FALSE, x.exp)

\* int(x): truncation toward zero, for |x| < 2^31.
float_to_int(x) ==
    IF x.bits = <<>> \/ MantBits + x.exp <= 0 THEN 0
    ELSE (IF x.sign = 1 THEN -1 ELSE 1)
         * BitsInt(SubSeq(x.bits, 1, MantBits + x.exp))

\* x <= y for floats that are zero or positive.
BitsLess(a, b) ==
    \E i \in 1..Len(a) : a[i] < b[i] /\ \A j \in 1..(i - 1) : a[j] = b[j]

float_le(x, y) ==
    \/ x.bits = <<>>
    \/ /\ y.bits # <<>>
       /\ \/ x.exp < y.exp
          \/ x.exp = y.exp /\ (x.bits = y.bits \/ BitsLess(x.bits, y.bits))

\* a + b for two limb sequences of the same length, from the last limb.
RECURSIVE AddLimbs(_, _, _, _, _)
AddLimbs(a, b, k, carry, acc) ==
    IF k = 0 THEN IntBits(carry) \o LimbsToBits(acc, 1)
    ELSE AddLimbs(a, b, k - 1, (a[k] + b[k] + carry) \div Pow2(LimbWidth),
                  <<(a[k] + b[k] + carry) % Pow2(LimbWidth)>> \o acc)

\* a + b for two bit sequences.
AddBits(a, b) ==
    LET w == IF Len(a) > Len(b) THEN Len(a) ELSE Len(b)
        la == ToLimbs(Zeros(w - Len(a)) \o a)
        lb == ToLimbs(Zeros(w - Len(b)) \o b)
    IN  StripZeros(AddLimbs(la, lb, Len(la), 0, <<>>))

\* x + n for a float x >= 0 and an int n >= 0: the exact sum, rounded.
float_add_int(x, n) ==
    IF n = 0 THEN x
    ELSE IF x.bits = <<>> THEN float_from_int(n)
    ELSE LET e == IF x.exp < 0 THEN x.exp ELSE 0
         IN  RoundToFloat(0, AddBits(x.bits \o Zeros(x.exp - e),
                                     IntBits(n) \o Zeros(-e)), FALSE, e)

\* n * x for an int n >= 0 and a float x.
int_mul_float(n, x) == IF n = 0 THEN FloatZero ELSE float_mul_int(x, n)

(***************************************************************************)
(* Calls on the colour registry                                            *)
(***************************************************************************)
NoCall == [op |-> "none", args |-> <<>>, status |-> "ok", value |-> <<>>]

\* Bounds of the inputs.
MaxOverrides == 2
MaxColourLen == 8

\* Keys and values a caller passes to set_colours: recognised domain types and
\* one that is none ("XX"); "#000000", "#fFf", "notacolor", "#GGG", and "#FFF"
\* followed by a line feed.
OverrideKeys == {"KS", "T", "XX"}

OverrideValues ==
    {<<"#", "0", "0", "0", "0", "0", "0">>,
     <<"#", "f", "F", "f">>,
     <<"n", "o", "t", "a", "c", "o", "l", "o", "r">>,
     <<"#", "G", "G", "G">>,
     <<"#", "F", "F", "F", "\n">>}

\* The items of a dict: pairs with distinct keys, in insertion order.
DictItems(keys, values, maxlen) ==
    {items \in UNION {[1..n -> keys \X values] : n \in 0..maxlen} :
        \A i, j \in 1..Len(items) : i # j => items[i][1] # items[j][1]}

\* Figure.__init__(synthases): the colours are a copy of the defaults.
FigureInit(entities) ==
    /\ synthases = entities
    /\ colours = default_colours
    /\ out = NoCall

\* figure.set_colours(dict(items))
SetColours ==
    \E items \in DictItems(OverrideKeys, OverrideValues, MaxOverrides) :
        LET r == set_colours_result(colours, items)
        IN  /\ colours' = r.colours
            /\ out' = [op |-> "set_colours",
                       args |-> [colours |-> colours, items |-> items],
                       status |-> r.status, value |-> <<>>]
            /\ UNCHANGED synthases

Init == FigureInit(<<>>)

Next == SetColours

Spec == Init /\ [][Next]_vars

\* Strings handed to _validate_colour: every string of at most MaxColourLen
\* characters over "#", two hexadecimal digits of either case, a letter that
\* is no hexadecimal digit, and the line feed.
ColourChars == {"#", "A", "f", "g", "\n"}

ColourStrings == UNION {[1..n -> ColourChars] : n \in 0..MaxColourLen}

InitColour ==
    /\ synthases = <<>>
    /\ colours = default_colours
    /\ \E c \in ColourStrings :
          out = [op |-> "input", args |-> c, status |-> "ok", value |-> <<>>]

ValidateColour ==
    /\ out.op = "input"
    /\ out' = [op |-> "_validate_colour", args |-> out.args, status |-> "ok",
               value |-> validate_colour(out.args)]
    /\ UNCHANGED <<synthases, colours>>

NextColour == ValidateColour

SpecColour == InitColour /\ [][NextColour]_vars

(***************************************************************************)
(* Claims about the colour registry                                        *)
(***************************************************************************)
\* The fixed recognised domain types, and what a valid hex colour is: "#" and
\* then exactly three or exactly six hexadecimal digits, nothing else.
DomainTypes ==
    {"ACP", "KS", "SAT", "KR", "MT", "ER", "AT", "DH", "PT", "TE", "TR",
     "T", "R", "C", "A"}

IsHexColour(c) ==
    /\ Len(c) \in {4, 7}
    /\ c[1] = "#"
    /\ \A i \in 2..Len(c) : c[i] \in HexDigits

Min(S) == CHOOSE x \in S : \A y \in S : x <= y

\* C1: set_colours fails with KeyError (InvalidDomainError) at the first key
\* that is no recognised domain type, with ValueError (InvalidColourError) at
\* the first recognised key whose value is no valid hex colour, and otherwise
\* succeeds, leaving each overridden key at its new value and every other key
\* at its previous value.
C1_SetColoursContract ==
    out.op = "set_colours" =>
        LET items == out.args.items
            before == out.args.colours
            bad == {i \in 1..Len(items) :
                       items[i][1] \notin DomainTypes \/ ~IsHexColour(items[i][2])}
        IN  IF bad = {}
            THEN /\ out.status = "ok"
                 /\ \A k \in DomainTypes :
                       IF \E i \in 1..Len(items) : items[i][1] = k
                       THEN \E i \in 1..Len(items) :
                               items[i][1] = k /\ colours[k] = items[i][2]
                       ELSE colours[k] = before[k]
            ELSE out.status =
                    (IF items[Min(bad)][1] \notin DomainTypes
                     THEN "KeyError" ELSE "ValueError")

\* C2: _validate_colour succeeds exactly on "#" followed by exactly three or
\* exactly six hexadecimal digits, and fails on every other string.
C2_ValidateColourExact ==
    out.op = "_validate_colour" => (out.value = IsHexColour(out.args))

\* C10: the registry always has exactly the recognised domain types as keys,
\* and every value in it is a valid hex colour.
C10_RegistryInvariant ==
    /\ DOMAIN colours = DomainTypes
    /\ \A k \in DomainTypes : IsHexColour(colours[k])

(***************************************************************************)
(* Synthase objects and the geometry                                       *)
(***************************************************************************)
\* A Synthase: header, sequence, the ordered domains (type, start, end) and
\* the classification labels type and subtype.
Synthase(header, sequence, domains, type, subtype) ==
    [header |-> header, sequence |-> sequence, domains |-> domains,
     type |-> type, subtype |-> subtype]

Domain(type, start, end) == [type |-> type, start |-> start, end |-> end]

\* Synthase.sequence_length
sequence_length(synthase) == Len(synthase.sequence)

\* max(self.synthases, key=attrgetter("sequence_length")): the first entity of
\* the greatest sequence length.
largest_index(entities) ==
    Min({i \in 1..Len(entities) :
            \A j \in 1..Len(entities) :
                sequence_length(entities[j]) <= sequence_length(entities[i])})

largest_synthase(entities) == entities[largest_index(entities)]

\* Figure.calculate_scale_factor(width); max() of an empty list raises
\* ValueError too.
calculate_scale_factor_no_offset(entities, width) ==
    IF \E i \in 1..Len(entities) : entities[i].sequence = <<>>
        THEN [status |-> "ValueError", value |-> <<>>]
    ELSE IF width < 0 THEN [status |-> "ValueError", value |-> <<>>]
    ELSE IF entities = <<>> THEN [status |-> "ValueError", value |-> <<>>]
    ELSE [status |-> "ok",
          value |-> int_truediv(width, sequence_length(largest_synthase(entities)))]

calculate_scale_factor(entities, width) ==
    IF \E i \in 1..Len(entities) : entities[i].sequence = <<>>
        THEN [status |-> "ValueError", value |-> <<>>]
    ELSE IF width < 0 THEN [status |-> "ValueError", value |-> <<>>]
    ELSE IF entities = <<>> THEN [status |-> "ValueError", value |-> <<>>]
    ELSE [status |-> "ok",
          value |-> int_truediv(width - 2,
                                sequence_length(largest_synthase(entities)))]

\* Figure.generate_synthase_polygon, for a float scale factor and font size
\* and arrow height that are not negative: the x of the arrow's tip (cx), the
\* y of its top edge (ay) and of its bottom edge (dy).  The remaining
\* coordinates (bx = dx = cx - 10, cy) are not modelled.
generate_synthase_polygon(synthase, scale_factor, info_fsize, arrow_height) ==
    IF synthase.sequence = <<>> THEN [status |-> "ValueError", value |-> <<>>]
    ELSE LET scaled_length == float_mul_int(scale_factor, Len(synthase.sequence))
             info_fsize_scaled == int_mul_float(info_fsize, int_truediv(9, 10))
             bottom_y == float_add_int(info_fsize_scaled, arrow_height)
         IN  [status |-> "ok",
              value |-> [cx |-> scaled_length, ay |-> info_fsize_scaled,
                         dy |-> bottom_y]]

\* Bounds of the figures whose scale factor is computed.
MaxSeqLen == 25
MaxScaleEntities == 2
MaxWidth == 9

\* The defaults of generate_synthase_polygon.
DefaultInfoFsize == 12
DefaultPolygonArrowHeight == 14

\* Figures of up to MaxScaleEntities entities: one of them of any length up to
\* MaxSeqLen (0: no sequence), the others of length 1 or MaxSeqLen.
ScaleLengths ==
    UNION {{lens \in [1..n -> 0..MaxSeqLen] :
               \E i \in 1..n : \A j \in (1..n) \ {i} : lens[j] \in {1, MaxSeqLen}} :
           n \in 0..MaxScaleEntities}

ScaleFigures ==
    {[i \in 1..Len(lens) |->
         Synthase(<<"s">>, Repeat("M", lens[i]), <<>>, <<>>, <<>>)] :
     lens \in ScaleLengths}

InitScale == \E entities \in ScaleFigures : FigureInit(entities)

\* figure.calculate_scale_factor(width).  The call leaves the Figure as it is,
\* so one call per behaviour reaches every result.
CalculateScaleFactor ==
    \E width \in -1..MaxWidth :
        LET r == calculate_scale_factor(synthases, width)
        IN  /\ out.op = "none"
            /\ out' = [op |-> "calculate_scale_factor", args |-> [width |-> width],
                       status |-> r.status, value |-> r.value]
            /\ UNCHANGED <<synthases, colours>>

NextScale == CalculateScaleFactor

SpecScale == InitScale /\ [][NextScale]_vars

(***************************************************************************)
(* Claims about the scale factor                                           *)
(***************************************************************************)
\* bits - 1, for bits that are not all zero.
DecBits(bits) ==
    LET k == CHOOSE i \in 1..Len(bits) :
                 bits[i] = 1 /\ \A j \in (i + 1)..Len(bits) : bits[j] = 0
    IN  [i \in 1..Len(bits) |-> IF i < k THEN bits[i] ELSE IF i = k THEN 0 ELSE 1]

\* The floats next to a float x # 0, away from zero and toward zero.
MagUp(x) ==
    LET inc == IncBits(x.bits)
    IN  IF Len(inc) = MantBits THEN [x EXCEPT !.bits = inc]
        ELSE [x EXCEPT !.bits = SubSeq(inc, 1, MantBits), !.exp = x.exp + 1]

MagDown(x) ==
    IF x.bits = <<1>> \o Zeros(MantBits - 1)
    THEN [x EXCEPT !.bits = [i \in 1..MantBits |-> 1], !.exp = x.exp - 1]
    ELSE [x EXCEPT !.bits = DecBits(x.bits)]

Neighbours(x) == IF x.bits = <<>> THEN {x} ELSE {x, MagUp(x), MagDown(x)}

ScaleCallOk == out.op = "calculate_scale_factor" /\ out.status = "ok"

\* The tips of the arrows of the entities under the scale factor just
\* computed.
TipXs ==
    [i \in 1..Len(synthases) |->
        generate_synthase_polygon(synthases[i], out.value, DefaultInfoFsize,
                                  DefaultPolygonArrowHeight).value.cx]

\* C3 (as stated): for a positive width the scale factor times the greatest
\* sequence length equals width - 2 exactly, the longest entity's tip lies at
\* width - 2, and (for widths from 2 on, where the scale is not negative) no
\* tip lies beyond it.
C3_ScaleProductExact ==
    (ScaleCallOk /\ out.args.width > 0) =>
        LET tips == TipXs
            target == float_from_int(out.args.width - 2)
        IN  /\ tips[largest_index(synthases)] = target
            /\ out.args.width >= 2 =>
                  \A i \in 1..Len(synthases) : float_le(tips[i], target)

\* C3 (amended): the product, rounded as the code computes it, is width - 2 or
\* one of the two floats next to it; the longest entity's tip lies at that
\* product, and for widths from 2 on no tip lies beyond the longest tip.
C3_ScaleProductNearTarget ==
    (ScaleCallOk /\ out.args.width > 0) =>
        LET tips == TipXs
            longest == tips[largest_index(synthases)]
        IN  /\ longest \in Neighbours(float_from_int(out.args.width - 2))
            /\ longest = float_mul_int(out.value,
                                       sequence_length(largest_synthase(synthases)))
            /\ out.args.width >= 2 =>
                  \A i \in 1..Len(synthases) : float_le(tips[i], longest)

\* A figure of two entities of different lengths, the longer of 25 residues,
\* scaled to width 9: the longest tip is not at 7.
C3_Witness ==
    /\ ScaleCallOk
    /\ out.args.width = 9
    /\ Len(synthases) = 2
    /\ sequence_length(synthases[1]) < sequence_length(synthases[2])
    /\ sequence_length(synthases[2]) = 25
    /\ TipXs[2] # float_from_int(7)

(***************************************************************************)
(* Gradients                                                               *)
(***************************************************************************)
White == <<"w", "h", "i", "t", "e">>

Stop(offset, colour) == [offset |-> offset, colour |-> colour]

\* int(position / sequence_length * 100)
percent(position, length) ==
    float_to_int(float_mul_int(int_truediv(position, length), 100))

\* The four <stop> elements of one domain.
domain_stops(domain, length, reg) ==
    LET start_pct == percent(domain.start, length)
        end_pct == percent(domain.end, length)
        colour == reg[domain.type]
    IN  <<Stop(start_pct, White), Stop(start_pct, colour),
          Stop(end_pct, colour), Stop(end_pct, White)>>

RECURSIVE gradient_stops(_, _, _, _)
gradient_stops(domains, i, length, reg) ==
    IF i > Len(domains) THEN <<>>
    ELSE domain_stops(domains[i], length, reg)
         \o gradient_stops(domains, i + 1, length, reg)

\* Figure.generate_synthase_gradient(synthase): the linearGradient element,
\* as its id and its <stop> children in order.
generate_synthase_gradient(synthase, reg) ==
    IF synthase.sequence = <<>> THEN [status |-> "ValueError", value |-> <<>>]
    ELSE IF \E i \in 1..Len(synthase.domains) :
                synthase.domains[i].type \notin DOMAIN reg
        THEN [status |-> "KeyError", value |-> <<>>]
    ELSE [status |-> "ok",
          value |-> [id |-> synthase.header \o <<"_", "d", "o", "m", "s">>,
                     stops |-> gradient_stops(synthase.domains, 1,
                                              Len(synthase.sequence), reg)]]

\* Bounds of the entities whose gradient is built: entities with one domain
\* that starts at the first residue or ends at the last one, of a sequence of
\* up to MaxGradLen residues; and entities with up to MaxDomains domains
\* anywhere on a sequence of up to ShortLen residues.
MaxGradLen == 50
ShortLen == 3
MaxDomains == 2

GradientTypes == {"KS", "T"}

DomainsOn(length, types) ==
    {Domain(t, p[1], p[2]) :
        t \in types, p \in {q \in (0..length) \X (0..length) : q[1] < q[2]}}

LongGradientEntities ==
    UNION {{Synthase(<<"A">>, Repeat("M", len), <<d>>, <<>>, <<>>) :
               d \in {x \in DomainsOn(len, {"KS"}) : x.start = 0 \/ x.end = len}} :
           len \in 1..MaxGradLen}

ShortGradientEntities ==
    UNION {{Synthase(<<"A">>, Repeat("M", len), ds, <<>>, <<>>) :
               ds \in UNION {[1..n -> DomainsOn(len, GradientTypes)] :
                                n \in 0..MaxDomains}} :
           len \in 0..ShortLen}
     \cup {Synthase(<<"A">>, <<>>, <<Domain("KS", 0, 1)>>, <<>>, <<>>)}

InitGradient ==
    \E synthase \in LongGradientEntities \cup ShortGradientEntities :
        FigureInit(<<synthase>>)

\* figure.generate_synthase_gradient(figure.synthases[0]).  The call leaves
\* the Figure as it is.
GenerateSynthaseGradient ==
    LET r == generate_synthase_gradient(synthases[1], colours)
    IN  /\ out.op = "none"
        /\ out' = [op |-> "generate_synthase_gradient", args |-> synthases[1],
                   status |-> r.status, value |-> r.value]
        /\ UNCHANGED <<synthases, colours>>

NextGradient == GenerateSynthaseGradient

SpecGradient == InitGradient /\ [][NextGradient]_vars

(***************************************************************************)
(* Claims about gradients                                                  *)
(***************************************************************************)
\* C7: on an entity with a sequence of length L and n domains the gradient
\* has 4n stops, in domain order: for the k-th domain two stops at
\* floor(start * 100 / L) (white, then the domain's colour) and two at
\* floor(end * 100 / L) (the colour, then white); with 0 <= start < end <= L
\* the offsets lie in 0..100 and the start offset is at most the end offset.
\* On an empty sequence the call fails with ValueError and gives no gradient.
C7_GradientStops ==
    out.op = "generate_synthase_gradient" =>
        LET e == out.args
            L == Len(e.sequence)
            n == Len(e.domains)
        IN  IF L = 0 THEN out.status = "ValueError" /\ out.value = <<>>
            ELSE /\ out.status = "ok"
                 /\ Len(out.value.stops) = 4 * n
                 /\ \A k \in 1..n :
                       LET d == e.domains[k]
                           s == (d.start * 100) \div L
                           t == (d.end * 100) \div L
                       IN  /\ out.value.stops[4 * k - 3] = Stop(s, White)
                           /\ out.value.stops[4 * k - 2] = Stop(s, colours[d.type])
                           /\ out.value.stops[4 * k - 1] = Stop(t, colours[d.type])
                           /\ out.value.stops[4 * k] = Stop(t, White)
                           /\ s \in 0..100 /\ t \in 0..100 /\ s <= t

(***************************************************************************)
(* Sorting and grouping                                                    *)
(***************************************************************************)
\* ord(c) of the characters of the classification labels of the model.
Ord == [c \in {"a", "b"} |-> IF c = "a" THEN 97 ELSE 98]

\* s < t for Python strings: the first differing character decides, and a
\* proper prefix is smaller.
StrLess(s, t) ==
    \/ \E i \in 1..Len(s) :
          /\ i <= Len(t)
          /\ Ord[s[i]] < Ord[t[i]]
          /\ \A j \in 1..(i - 1) : s[j] = t[j]
    \/ Len(s) < Len(t) /\ \A j \in 1..Len(s) : s[j] = t[j]

\* The characters of the domain type labels.
TypeChars ==
    [ACP |-> <<"A", "C", "P">>, KS |-> <<"K", "S">>, SAT |-> <<"S", "A", "T">>,
     KR |-> <<"K", "R">>, MT |-> <<"M", "T">>, ER |-> <<"E", "R">>,
     AT |-> <<"A", "T">>, DH |-> <<"D", "H">>, PT |-> <<"P", "T">>,
     TE |-> <<"T", "E">>, TR |-> <<"T", "R">>, T |-> <<"T">>, R |-> <<"R">>,
     C |-> <<"C">>, A |-> <<"A">>]

\* Synthase.architecture: the domain types joined by "-", as in the info line
\* "synthase, 100aa, KS-AT" of generate_synthase_polygon.
RECURSIVE architecture_from(_, _)
architecture_from(domains, i) ==
    IF i > Len(domains) THEN <<>>
    ELSE IF i = Len(domains) THEN TypeChars[domains[i].type]
    ELSE TypeChars[domains[i].type] \o <<"-">> \o architecture_from(domains, i + 1)

architecture(synthase) == architecture_from(synthase.domains, 1)

\* list.sort(key=...): a stable sort.  before[i][j] says that the key of
\* s[i] sorts strictly before the key of s[j]; an element's place is the
\* number of elements that go before it.
StableSort(s, before) ==
    LET n == Len(s)
        place(i) ==
            1 + Cardinality({j \in 1..n :
                                \/ before[j][i]
                                \/ j < i /\ ~before[i][j]})
    IN  [p \in 1..n |-> s[CHOOSE i \in 1..n : place(i) = p]]

\* Figure.sort_synthases_by_length
ArchitectureLonger(x, y) == Len(architecture(x)) > Len(architecture(y))

SequenceLonger(x, y) == sequence_length(x) > sequence_length(y)

sort_synthases_by_length(entities) ==
    IF \E i \in 1..Len(entities) : entities[i].sequence = <<>>
    THEN StableSort(entities,
                    [i \in 1..Len(entities) |-> [j \in 1..Len(entities) |->
                        ArchitectureLonger(entities[i], entities[j])]])
    ELSE StableSort(entities,
                    [i \in 1..Len(entities) |-> [j \in 1..Len(entities) |->
                        SequenceLonger(entities[i], entities[j])]])

\* attrgetter("type", "subtype"): tuples compare item by item.
TypeSubtypeLess(x, y) ==
    \/ StrLess(x.type, y.type)
    \/ x.type = y.type /\ StrLess(x.subtype, y.subtype)

\* itertools.groupby(entities, key=attrgetter("subtype")): the runs of
\* consecutive entities of equal subtype.
RECURSIVE groupby_subtype(_, _, _)
groupby_subtype(entities, i, groups) ==
    IF i > Len(entities) THEN groups
    ELSE IF groups # <<>> /\ groups[Len(groups)].subtype = entities[i].subtype
        THEN groupby_subtype(entities, i + 1,
                 [groups EXCEPT ![Len(groups)].group = Append(@, entities[i])])
    ELSE groupby_subtype(entities, i + 1,
             Append(groups, [subtype |-> entities[i].subtype,
                             group |-> <<entities[i]>>]))

\* Figure.iterate_synthase_types, run to its end: the list as the two sorts
\* leave it, and the (subtype, group) pairs yielded.
iterate_synthase_types(entities) ==
    LET by_length == sort_synthases_by_length(entities)
        by_type == StableSort(by_length,
                              [i \in 1..Len(by_length) |-> [j \in 1..Len(by_length) |->
                                  TypeSubtypeLess(by_length[i], by_length[j])]])
    IN  [synthases |-> by_type, groups |-> groupby_subtype(by_type, 1, <<>>)]

\* Bounds of the figures that are grouped.
MaxEntities == 3
MaxGroupSeqLen == 2

Labels == {<<"a">>, <<"b">>}

Headers == <<"A", "B", "C", "D", "E">>

GroupArchitectures ==
    {<<>>,
     <<Domain("ACP", 0, 1), Domain("ACP", 0, 1)>>,
     <<Domain("T", 0, 1), Domain("R", 0, 1), Domain("C", 0, 1)>>}

\* Per entity: the sequence length, the domains, the type and the subtype.
GroupFigures ==
    {[i \in 1..Len(f) |->
         Synthase(<<Headers[i]>>, Repeat("M", f[i][1]), f[i][2], f[i][3], f[i][4])] :
     f \in UNION {[1..n -> (0..MaxGroupSeqLen) \X GroupArchitectures
                              \X Labels \X Labels] : n \in 0..MaxEntities}}

InitGroup == \E entities \in GroupFigures : FigureInit(entities)

\* list(figure.iterate_synthase_types())
IterateSynthaseTypes ==
    LET r == iterate_synthase_types(synthases)
    IN  /\ synthases' = r.synthases
        /\ out' = [op |-> "iterate_synthase_types", args |-> synthases,
                   status |-> "ok", value |-> r.groups]
        /\ UNCHANGED colours

NextGroup == IterateSynthaseTypes

SpecGroup == InitGroup /\ [][NextGroup]_vars

(***************************************************************************)
(* Claims about grouping                                                   *)
(***************************************************************************)
RECURSIVE Concat(_, _)
Concat(groups, i) ==
    IF i > Len(groups) THEN <<>> ELSE groups[i].group \o Concat(groups, i + 1)

Count(s, x) == Cardinality({i \in 1..Len(s) : s[i] = x})

SameMultiset(s, t) ==
    /\ Len(s) = Len(t)
    /\ \A i \in 1..Len(s) : Count(s, s[i]) = Count(t, s[i])

GroupCall == out.op = "iterate_synthase_types"

\* C5: the groups, concatenated, hold the same multiset of entities as the
\* list before the call; every member of a group carries the group's subtype
\* and no subtype is the key of two groups; and the groups come in ascending
\* (type, subtype) order.
C5_GroupingPartition ==
    GroupCall =>
        LET groups == out.value
            all == Concat(groups, 1)
        IN  /\ SameMultiset(all, out.args)
            /\ \A g \in 1..Len(groups) :
                  \A m \in 1..Len(groups[g].group) :
                      groups[g].group[m].subtype = groups[g].subtype
            /\ \A g, h \in 1..Len(groups) :
                  g # h => groups[g].subtype # groups[h].subtype
            /\ \A i \in 1..(Len(all) - 1) : ~TypeSubtypeLess(all[i + 1], all[i])

\* The ranking key of C6: the sequence length when every entity has a
\* sequence, the number of domains otherwise.
RankKey(entities, x) ==
    IF \E i \in 1..Len(entities) : entities[i].sequence = <<>>
    THEN Len(x.domains)
    ELSE Len(x.sequence)

IndexOf(s, x) == Min({i \in 1..Len(s) : s[i] = x})

\* C6: within every group the members are in descending order of the ranking
\* key, and members of equal key keep their order from the list before the
\* call.
C6_GroupsDescendingStable ==
    GroupCall =>
        \A g \in 1..Len(out.value) :
            LET group == out.value[g].group
            IN  \A m \in 1..(Len(group) - 1) :
                    LET x == RankKey(out.args, group[m])
                        y == RankKey(out.args, group[m + 1])
                    IN  \/ x > y
                        \/ /\ x = y
                           /\ IndexOf(out.args, group[m])
                                  < IndexOf(out.args, group[m + 1])

(***************************************************************************)
(* JSON                                                                    *)
(* A Python value that json handles is a tagged record: a str, an int, a   *)
(* list of values, or a dict (its items in order).  Dict keys and domain   *)
(* type labels are atoms; every other str is a sequence of characters.     *)
(* JSON text is a sequence of tokens: punctuation, strings and numbers.    *)
(***************************************************************************)
JStr(chars) == [t |-> "str", v |-> chars]
JInt(n) == [t |-> "int", v |-> n]
JList(items) == [t |-> "list", v |-> items]
JDict(items) == [t |-> "dict", v |-> items]
Punct(c) == [t |-> "punct", v |-> c]

IsPunct(tok, c) == tok.t = "punct" /\ tok.v = c

\* json.dumps(value)
RECURSIVE json_dumps(_)
RECURSIVE dumps_items(_, _)
RECURSIVE dumps_members(_, _)
json_dumps(value) ==
    IF value.t = "list" THEN <<Punct("[")>> \o dumps_items(value.v, 1) \o <<Punct("]")>>
    ELSE IF value.t = "dict"
        THEN <<Punct("{")>> \o dumps_members(value.v, 1) \o <<Punct("}")>>
    ELSE <<value>>

dumps_items(items, i) ==
    IF i > Len(items) THEN <<>>
    ELSE IF i = Len(items) THEN json_dumps(items[i])
    ELSE json_dumps(items[i]) \o <<Punct(",")>> \o dumps_items(items, i + 1)

dumps_members(items, i) ==
    IF i > Len(items) THEN <<>>
    ELSE <<JStr(items[i][1]), Punct(":")>> \o json_dumps(items[i][2])
         \o (IF i = Len(items) THEN <<>>
             ELSE <<Punct(",")>> \o dumps_members(items, i + 1))

\* json.load(handle): the value that starts at token i, and the place after
\* it.
RECURSIVE parse_value(_, _)
RECURSIVE parse_items(_, _, _)
RECURSIVE parse_members(_, _, _)
parse_value(toks, i) ==
    IF IsPunct(toks[i], "[")
        THEN IF IsPunct(toks[i + 1], "]")
             THEN [value |-> JList(<<>>), next |-> i + 2]
             ELSE parse_items(toks, i + 1, <<>>)
    ELSE IF IsPunct(toks[i], "{")
        THEN IF IsPunct(toks[i + 1], "}")
             THEN [value |-> JDict(<<>>), next |-> i + 2]
             ELSE parse_members(toks, i + 1, <<>>)
    ELSE [value |-> toks[i], next |-> i + 1]

parse_items(toks, i, acc) ==
    LET r == parse_value(toks, i)
    IN  IF IsPunct(toks[r.next], ",")
        THEN parse_items(toks, r.next + 1, Append(acc, r.value))
        ELSE [value |-> JList(Append(acc, r.value)), next |-> r.next + 1]

parse_members(toks, i, acc) ==
    LET r == parse_value(toks, i + 2)
        item == <<toks[i].v, r.value>>
    IN  IF IsPunct(toks[r.next], ",")
        THEN parse_members(toks, r.next + 1, Append(acc, item))
        ELSE [value |-> JDict(Append(acc, item)), next |-> r.next + 1]

json_load(toks) == parse_value(toks, 1).value

\* dict[key]
dict_get(dict, key) ==
    dict.v[CHOOSE i \in 1..Len(dict.v) : dict.v[i][1] = key][2]

\* Domain.to_dict, Synthase.to_dict and their from_dict: the serialized form
\* {header, sequence, domains: [{type, start, end}, ...]}.
domain_to_dict(domain) ==
    JDict(<<<<"type", JStr(domain.type)>>, <<"start", JInt(domain.start)>>,
            <<"end", JInt(domain.end)>>>>)

synthase_to_dict(synthase) ==
    JDict(<<<<"header", JStr(synthase.header)>>,
            <<"sequence", JStr(synthase.sequence)>>,
            <<"domains",
              JList([i \in 1..Len(synthase.domains) |->
                        domain_to_dict(synthase.domains[i])])>>>>)

domain_from_dict(record) ==
    Domain(dict_get(record, "type").v, dict_get(record, "start").v,
           dict_get(record, "end").v)

synthase_from_dict(record) ==
    LET domains == dict_get(record, "domains").v
    IN  Synthase(dict_get(record, "header").v, dict_get(record, "sequence").v,
                 [i \in 1..Len(domains) |-> domain_from_dict(domains[i])],
                 <<>>, <<>>)

\* Synthase.__eq__: same header, sequence and domains.
synthase_eq(x, y) ==
    /\ x.header = y.header
    /\ x.sequence = y.sequence
    /\ x.domains = y.domains

\* Figure(synthases): a new Figure with the default colours.
Figure(entities) ==
    [synthases |-> IF entities # <<>> THEN entities ELSE <<>>,
     colours |-> default_colours]

\* Figure.to_json
to_json_reversed(entities) ==
    json_dumps(JList([i \in 1..Len(entities) |->
                         synthase_to_dict(entities[Len(entities) + 1 - i])]))

to_json(entities) ==
    json_dumps(JList([i \in 1..Len(entities) |-> synthase_to_dict(entities[i])]))

\* Figure.from_json, on the text of the file
from_json(text) ==
    LET records == json_load(text).v
    IN  Figure([i \in 1..Len(records) |-> synthase_from_dict(records[i])])

\* Figure.__eq__
figure_eq(entities, others) ==
    /\ Len(entities) = Len(others)
    /\ \A i \in 1..Len(entities) : synthase_eq(entities[i], others[i])

\* Bounds of the figures that are serialized.
MaxJsonEntities == 2

JsonDomainLists ==
    {<<>>,
     <<Domain("KS", 0, 1)>>,
     <<Domain("T", 1, 2), Domain("KS", 0, 1)>>}

JsonEntities ==
    {Synthase(<<h>>, q, ds, <<>>, <<>>) :
        h \in {"A", "B"}, q \in {<<>>, <<"M", "K">>}, ds \in JsonDomainLists}

\* Figure(synthases, colours): the defaults, or KS overridden to "#000000".
InitJson ==
    \E entities \in UNION {[1..n -> JsonEntities] : n \in 0..MaxJsonEntities},
       items \in {<<>>, <<<<"KS", <<"#", "0", "0", "0", "0", "0", "0">>>>>>} :
        /\ synthases = entities
        /\ colours = set_colours_result(default_colours, items).colours
        /\ out = NoCall

\* text = figure.to_json()
ToJson ==
    /\ out.op = "none"
    /\ out' = [op |-> "to_json", args |-> <<>>, status |-> "ok",
               value |-> to_json(synthases)]
    /\ UNCHANGED <<synthases, colours>>

\* Figure.from_json(handle), the handle reading the text just written
FromJson ==
    /\ out.op = "to_json"
    /\ out' = [op |-> "from_json", args |-> out.value, status |-> "ok",
               value |-> from_json(out.value)]
    /\ UNCHANGED <<synthases, colours>>

NextJson == ToJson \/ FromJson

SpecJson == InitJson /\ [][NextJson]_vars

getitem_index(entities, key) ==
    IF \E i \in 1..Len(entities) : entities[i].header = key
    THEN Min({i \in 1..Len(entities) : entities[i].header = key})
    ELSE 0

\* Figure.add_query_sequences(sequences=dict(items)), from item i on.
RECURSIVE add_query_sequences_skipping(_, _, _)
add_query_sequences_skipping(entities, items, i) ==
    IF i > Len(items) THEN [synthases |-> entities, status |-> "ok"]
    ELSE LET k == getitem_index(entities, items[i][1])
         IN  IF k = 0 THEN add_query_sequences_skipping(entities, items, i + 1)
             ELSE add_query_sequences_skipping(
                      [entities EXCEPT ![k].sequence = items[i][2]], items, i + 1)

RECURSIVE add_query_sequences(_, _, _)
add_query_sequences(entities, items, i) ==
    IF i > Len(items) THEN [synthases |-> entities, status |-> "ok"]
    ELSE LET k == getitem_index(entities, items[i][1])
         IN  IF k = 0 THEN [synthases |-> entities, status |-> "KeyError"]
             ELSE add_query_sequences(
                      [entities EXCEPT ![k].sequence = items[i][2]], items, i + 1)

\* Bounds of the figures and of the mappings.
MaxSeqEntities == 2
MaxMapping == 2

SeqEntities ==
    {Synthase(<<h>>, q, <<Domain("KS", 0, 1)>>, <<>>, <<>>) :
        h \in {"A", "B", "C"}, q \in {<<>>, <<"M">>, <<"M", "K">>}}

\* Every Figure a call can leave behind is among the initial ones.
InitSeq ==
    \E entities \in UNION {[1..n -> SeqEntities] : n \in 0..MaxSeqEntities} :
        FigureInit(entities)

\* figure.add_query_sequences(sequences=dict(items)), once per behaviour
AddQuerySequences ==
    \E items \in DictItems({<<"A">>, <<"B">>, <<"D">>}, {<<>>, <<"M", "K">>},
                           MaxMapping) :
        LET r == add_query_sequences(synthases, items, 1)
        IN  /\ out.op = "none"
            /\ synthases' = r.synthases
            /\ out' = [op |-> "add_query_sequences",
                       args |-> [synthases |-> synthases, items |-> items],
                       status |-> r.status, value |-> <<>>]
            /\ UNCHANGED colours

NextSeq == AddQuerySequences

SpecSeq == InitSeq /\ [][NextSeq]_vars

(***************************************************************************)
(* Claims about assigning sequences                                        *)
(***************************************************************************)
\* C8: the call fails with KeyError (UnmatchedHeaderError) exactly when a
\* header of the mapping is the header of no entity; when it succeeds, every
\* entity keeps its header and domains, the first entity of each header that
\* is a key of the mapping has the mapped sequence, and every other entity
\* keeps its sequence.  Headers are unique in a Figure (an entity's header is
\* its identifier), so the first entity of a header is the entity of that
\* header.
C8_AddQuerySequences ==
    out.op = "add_query_sequences" =>
        LET before == out.args.synthases
            items == out.args.items
            unmatched == {i \in 1..Len(items) :
                             \A k \in 1..Len(before) : before[k].header # items[i][1]}
        IN  /\ out.status = (IF unmatched = {} THEN "ok" ELSE "KeyError")
            /\ Len(synthases) = Len(before)
            /\ \A k \in 1..Len(before) :
                  /\ synthases[k].header = before[k].header
                  /\ synthases[k].domains = before[k].domains
            /\ unmatched = {} =>
                  \A k \in 1..Len(before) :
                      IF /\ \E i \in 1..Len(items) : items[i][1] = before[k].header
                         /\ \A j \in 1..(k - 1) : before[j].header # before[k].header
                      THEN \E i \in 1..Len(items) :
                              /\ items[i][1] = before[k].header
                              /\ synthases[k].sequence = items[i][2]
                      ELSE synthases[k].sequence = before[k].sequence

\* A mapping with one matching header was assigned to a Figure of two
\* entities with different headers: one took the mapped sequence, the other,
\* whose header is no key, kept a sequence of its own.
C8_Witness ==
    /\ out.op = "add_query_sequences"
    /\ out.status = "ok"
    /\ Len(out.args.items) = 1
    /\ Len(synthases) = 2
    /\ synthases[1].header # synthases[2].header
    /\ synthases[2].header = out.args.items[1][1]
    /\ synthases[2].sequence # out.args.synthases[2].sequence
    /\ synthases[1].sequence = <<"M">>

(***************************************************************************)
(* Blocks and the SVG document                                             *)
(***************************************************************************)
\* The fixed margins of the layout: the room under the info line of an arrow
\* and the top margin of the document.
ArrowGap == 4
TopMargin == 3

\* Figure.build_polygon_block: the block (its header and its arrows, each
\* with its vertical translation) and the offset reached.
RECURSIVE polygon_block_loop(_, _, _, _, _, _, _)
polygon_block_loop(members, i, scale_factor, arrow_spacing, arrow_height, info_fsize, acc) ==
    IF i > Len(members) THEN acc
    ELSE polygon_block_loop(
             members, i + 1, scale_factor, arrow_spacing, arrow_height, info_fsize,
             [arrows |-> Append(acc.arrows,
                            [y |-> acc.offset,
                             header |-> members[i].header,
                             polygon |-> generate_synthase_polygon(
                                             members[i], scale_factor, info_fsize,
                                             arrow_height).value]),
              offset |-> acc.offset + info_fsize + arrow_height + ArrowGap
                             + arrow_spacing])

build_polygon_block_no_header(subtype, members, scale_factor, arrow_spacing, arrow_height, info_fsize, header_fsize) ==
    LET r == polygon_block_loop(members, 1, scale_factor, arrow_spacing,
                                arrow_height, info_fsize,
                                [arrows |-> <<>>, offset |-> 0])
    IN  [block |-> [subtype |-> subtype, arrows |-> r.arrows], offset |-> r.offset]

build_polygon_block(subtype, members, scale_factor, arrow_spacing, arrow_height, info_fsize, header_fsize) ==
    LET r == polygon_block_loop(members, 1, scale_factor, arrow_spacing,
                                arrow_height, info_fsize,
                                [arrows |-> <<>>, offset |-> header_fsize])
    IN  [block |-> [subtype |-> subtype, arrows |-> r.arrows], offset |-> r.offset]

\* The loop of Figure.visualise over the groups: the blocks, each with its
\* vertical translation, and the offset reached.
RECURSIVE visualise_blocks(_, _, _, _, _)
visualise_blocks(groups, i, scale_factor, p, acc) ==
    IF i > Len(groups) THEN acc
    ELSE LET b == build_polygon_block(groups[i].subtype, groups[i].group,
                                      scale_factor, p.arrow_spacing, p.arrow_height,
                                      p.info_fsize, p.header_fsize)
         IN  visualise_blocks(groups, i + 1, scale_factor, p,
                 [blocks |-> Append(acc.blocks,
                                 [y |-> acc.offset, subtype |-> b.block.subtype,
                                  arrows |-> b.block.arrows]),
                  offset |-> acc.offset + b.offset + p.block_spacing])

\* Figure.visualise(**p): the Figure's list as the call leaves it, and the
\* document: width, height, the gradients and the blocks.
visualise(entities, reg, p) ==
    LET sf == calculate_scale_factor(entities, p.width)
        it == iterate_synthase_types(entities)
        laid == visualise_blocks(it.groups, 1, sf.value, p,
                                 [blocks |-> <<>>, offset |-> TopMargin])
        gradients == [i \in 1..Len(it.synthases) |->
                         generate_synthase_gradient(it.synthases[i], reg)]
    IN  IF sf.status # "ok"
            THEN [synthases |-> entities, status |-> sf.status, value |-> <<>>]
        ELSE IF \E i \in 1..Len(gradients) : gradients[i].status # "ok"
            THEN [synthases |-> it.synthases, status |-> "KeyError", value |-> <<>>]
        ELSE [synthases |-> it.synthases, status |-> "ok",
              value |-> [width |-> p.width,
                         height |-> laid.offset - p.block_spacing - p.arrow_spacing
                                        - ArrowGap,
                         gradients |-> [i \in 1..Len(gradients) |-> gradients[i].value],
                         blocks |-> laid.blocks]]

\* The defaults of Figure.visualise.
DefaultArrowHeight == 12
DefaultArrowSpacing == 4
DefaultBlockSpacing == 16
DefaultHeaderFsize == 15
DefaultVisualiseInfoFsize == 12
DefaultWidth == 600

DefaultParams ==
    [arrow_height |-> DefaultArrowHeight, arrow_spacing |-> DefaultArrowSpacing,
     block_spacing |-> DefaultBlockSpacing, header_fsize |-> DefaultHeaderFsize,
     info_fsize |-> DefaultVisualiseInfoFsize, width |-> DefaultWidth]

\* Bounds of the figures that are drawn and of the sizes passed.
MaxLayoutEntities == 3
MaxSize == 1

\* The arguments of visualise: the defaults; the defaults with one size or
\* spacing set to a value up to MaxSize; every size and spacing at the same
\* value up to MaxSize; and the defaults with a negative width.
LayoutParams ==
    {DefaultParams, [DefaultParams EXCEPT !.width = -1]}
    \cup {[DefaultParams EXCEPT ![f] = v] :
             f \in {"arrow_height", "arrow_spacing", "block_spacing",
                    "header_fsize", "info_fsize"},
             v \in 0..MaxSize}
    \cup {[arrow_height |-> v, arrow_spacing |-> v, block_spacing |-> v,
           header_fsize |-> v, info_fsize |-> v, width |-> DefaultWidth] :
             v \in 0..MaxSize}

\* The kinds of entity drawn: sequence length, subtype, domains.
LayoutKinds ==
    {<<2, <<"a">>, <<Domain("KS", 0, 1)>>>>,
     <<1, <<"b">>, <<Domain("T", 0, 1)>>>>,
     <<0, <<"b">>, <<>>>>}

LayoutFigures ==
    {[i \in 1..Len(f) |->
         Synthase(<<Headers[i]>>, Repeat("M", f[i][1]), f[i][3], <<"a">>, f[i][2])] :
     f \in UNION {[1..n -> LayoutKinds] : n \in 0..MaxLayoutEntities}}

InitLayout == \E entities \in LayoutFigures : FigureInit(entities)

\* figure.visualise(**p), once per behaviour: the call only sorts the list,
\* and every order of the list is among the initial Figures.
Visualise ==
    \E p \in LayoutParams :
        LET r == visualise(synthases, colours, p)
        IN  /\ out.op = "none"
            /\ synthases' = r.synthases
            /\ out' = [op |-> "visualise", args |-> p, status |-> r.status,
                       value |-> r.value]
            /\ UNCHANGED colours

NextLayout == Visualise

SpecLayout == InitLayout /\ [][NextLayout]_vars

(***************************************************************************)
(* Claims about the layout                                                 *)
(***************************************************************************)
\* The height one arrow takes in a block.
ArrowStep(p) == p.info_fsize + p.arrow_height + 4 + p.arrow_spacing

BlockHeight(p, m) == p.header_fsize + m * ArrowStep(p)

\* C9: the first block is translated to y = 3; the i-th entity (from 0) of a
\* block is translated to header_fsize + i * (info_fsize + arrow_height + 4 +
\* arrow_spacing) inside it; each following block is translated to the
\* previous block's offset plus that block's height plus block_spacing; the
\* document height is the offset after the last block minus block_spacing,
\* arrow_spacing and 4.  With sizes and spacings that are not negative the
\* block offsets increase strictly and the document height is at least the
\* bottom of the last arrow.
C9_VerticalLayout ==
    (out.op = "visualise" /\ out.status = "ok") =>
        LET p == out.args
            blocks == out.value.blocks
            n == Len(blocks)
            last == blocks[n]
            m == Len(last.arrows)
        IN  /\ n >= 1
            /\ blocks[1].y = 3
            /\ \A b \in 1..n :
                  /\ Len(blocks[b].arrows) >= 1
                  /\ \A i \in 1..Len(blocks[b].arrows) :
                        blocks[b].arrows[i].y = p.header_fsize + (i - 1) * ArrowStep(p)
            /\ \A b \in 1..(n - 1) :
                  /\ blocks[b + 1].y
                        = blocks[b].y + BlockHeight(p, Len(blocks[b].arrows))
                              + p.block_spacing
                  /\ blocks[b + 1].y > blocks[b].y
            /\ out.value.height
                  = (last.y + BlockHeight(p, m) + p.block_spacing)
                        - p.block_spacing - p.arrow_spacing - 4
            /\ float_le(last.arrows[m].polygon.dy,
                        float_from_int(out.value.height - last.y - last.arrows[m].y))

\* A Figure of three entities was drawn as a block of two arrows followed by
\* a block of one.
C9_Witness ==
    /\ out.op = "visualise"
    /\ out.status = "ok"
    /\ Len(out.value.blocks) = 2
    /\ Len(out.value.blocks[1].arrows) = 2
    /\ Len(out.value.blocks[2].arrows) = 1
    /\ out.args = DefaultParams

====
